---- MODULE Spec2Model ----
(***************************************************************************)
(* GNU/Shark (src/gnushark.py): the installation orchestration engine.     *)
(*                                                                         *)
(* The control (GTK) thread runs App.handle_action; every script goes      *)
(* through App._open_terminal_and_run_pipeline, which starts it in a       *)
(* background thread and returns at once.  In root-pkexec mode the runner  *)
(* first calls App._ensure_polkit_policy.                                  *)
(*                                                                         *)
(* Spec: clicks on the cards, in a session whose wrapper and policy are    *)
(* in place.  SpecRunner: the runner and the policy installer called       *)
(* directly, from any state of the two files, with a second thread.        *)
(***************************************************************************)
EXTENDS Integers, Sequences, FiniteSets, TLC

\* ---------------------------------------------------------------- bounds
\* user actions (clicks on a card) handled in one behaviour
MaxActions == 1
\* range of the millisecond clock read by the runner
MaxClock == 1
\* packages of one request whose installed state is left open: the first
\* MaxListed names of the list (the others are installed)
MaxListed == 2
\* calls made by each thread when the runner and the policy installer are
\* driven directly
MaxCalls == 2

\* Python's None
None == "none"

\* ------------------------------------------------- static configuration
Cfg(p, e, f) == [packages |-> p, exec |-> e, flatpak |-> f, alt_packages |-> << >>]

ActionIds ==
  {"intel-mesa", "amd-mesa", "gamemode", "tuned-performance", "cpupower-performance",
   "zram", "preload", "steam", "lutris", "heroic", "protonplus", "wine", "bottles",
   "mangohud", "steam-acolyte", "goverlay", "python-steam", "corectrl", "gwe",
   "adwsteamgtk"}

ACTION_MAP ==
  [i \in ActionIds |->
    CASE i = "intel-mesa" -> Cfg(<<"mesa", "vulkan-intel", "lib32-vulkan-intel",
                                   "vulkan-icd-loader", "lib32-vulkan-icd-loader">>, None, None)
      [] i = "amd-mesa" -> Cfg(<<"mesa", "vulkan-radeon", "lib32-vulkan-radeon",
                                 "vulkan-icd-loader", "lib32-vulkan-icd-loader">>, None, None)
      [] i = "gamemode" -> Cfg(<<"gamemode", "lib32-gamemode">>, None, None)
      [] i = "tuned-performance" -> Cfg(<<"tuned">>, None, None)
      [] i = "cpupower-performance" -> Cfg(<<"cpupower">>, None, None)
      [] i = "zram" -> Cfg(<<"zram-generator">>, None, None)
      [] i = "preload" -> Cfg(<<"preload">>, None, None)
      [] i = "steam" -> Cfg(<<"steam">>, "steam", "com.valvesoftware.Steam")
      [] i = "lutris" -> Cfg(<<"lutris">>, "lutris", "net.lutris.Lutris")
      [] i = "heroic" -> Cfg(<<"heroic-games-launcher">>, "heroic", "com.heroicgameslauncher.hgl")
      [] i = "protonplus" -> Cfg(<<"protonplus">>, "protonplus", "com.vysp3r.ProtonPlus")
      [] i = "wine" -> Cfg(<<"wine", "winetricks", "dxvk-bin", "vkd3d", "vkd3d-proton", "samba">>,
                           "winecfg", None)
      [] i = "bottles" -> Cfg(<<"bottles">>, "bottles", "com.usebottles.bottles")
      [] i = "mangohud" -> Cfg(<<"mangohud", "lib32-mangohud">>, None, None)
      [] i = "steam-acolyte" -> Cfg(<<"steam-acolyte">>, "steam-acolyte", None)
      [] i = "goverlay" -> Cfg(<<"goverlay">>, "goverlay", None)
      [] i = "python-steam" -> Cfg(<<"python-steam">>, None, None)
      [] i = "corectrl" -> Cfg(<<"corectrl">>, "corectrl", None)
      [] i = "gwe" -> Cfg(<<"gwe", "greenwithenvy">>, "gwe", "com.leinardi.gwe")
      [] i = "adwsteamgtk" -> Cfg(<<"adwsteamgtk">>, "adwsteamgtk", "io.github.Foldex.AdwSteamGtk")]

\* the cards clicked in the model: one of each kind of flow
Items ==
  {"flathub", "nvidia-driver", "zram", "gamemode", "steam", "mangohud", "steam-acolyte", "gwe"}

\* p.startswith("lib32-"), over the package names of the model
Lib32 ==
  {"lib32-vulkan-intel", "lib32-vulkan-radeon", "lib32-vulkan-icd-loader", "lib32-gamemode",
   "lib32-mangohud", "lib32-nvidia-utils"}

\* item ids with a POST_STEPS entry; gamemode's runs in a plain thread, the
\* others launch a root pipeline through the runner
POST_STEPS ==
  {"zram", "cpupower-performance", "gamemode", "tuned-performance", "preload"}

MultilibItems == {"steam", "wine", "mangohud"}
CliLike == {"steam-acolyte", "paru", "yay"}

Vendors == {"nvidia", "amd", "intel"}
PkgManagers == {"pamac", "pacman", "paru", "yay", None}
FileStates == {"absent", "stale", "intended"}

\* every thread that may enter the runner or the policy installer
Threads == {"ui", "t1"}

Range(s) == {s[i] : i \in 1..Len(s)}
RemoveAt(s, i) == SubSeq(s, 1, i - 1) \o SubSeq(s, i + 1, Len(s))
Listed(s) == {s[i] : i \in 1..(IF Len(s) < MaxListed THEN Len(s) ELSE MaxListed)}
Keep(s, S) == SelectSeq(s, LAMBDA p : p \in S)
Drop(s, S) == SelectSeq(s, LAMBDA p : p \notin S)

\* ------------------------------------------------------- pure functions
\* a mode selection that asks for pkexec before it looks at the effective uid
RunModePkexecFirst(root, e0, pk) ==
  IF root
    THEN IF pk THEN "root-pkexec" ELSE IF e0 THEN "root-euid0" ELSE "root-sudo"
    ELSE "user"

\* run_root_def, lines 1388-1419: the shell functions run_root / run_root_sh
\* written into the script, named by the command they run their argument with
RunRootDef(root, e0, pk) ==
  IF root /\ e0 THEN "env bash -lc"
  ELSE IF root /\ pk THEN "pkexec wrapper"
  ELSE IF root THEN "sudo bash -lc"
  ELSE "bash -lc"

\* run_mode of _open_terminal_and_run_pipeline
RunModeOf(need_root, e0, pk) ==
  IF need_root
    THEN IF e0 THEN "root-euid0" ELSE IF pk THEN "root-pkexec" ELSE "root-sudo"
    ELSE "user"

\* check_cmd of _ensure_polkit_policy: [ -f policy ] && [ -x wrapper ] && cmp && cmp
PolicyCheck(w, p) ==
  /\ p # "absent"
  /\ w # "absent"
  /\ w = "intended"
  /\ p = "intended"

\* a resolver that leaves the list as it is
ResolveNothing(ps, in_repo) == ps

\* _resolve_virtual_pkgs, given the answers of _pkg_in_official_repos_cached
ResolveVirtualPkgs(ps, in_repo) ==
  [i \in 1..Len(ps) |->
     IF ps[i] = "vkd3d-proton"
       THEN IF "vkd3d-proton" \in in_repo THEN "vkd3d-proton"
            ELSE IF "vkd3d-proton-bin" \in in_repo THEN "vkd3d-proton-bin"
            ELSE "vkd3d-proton-bin"
       ELSE ps[i]]

\* _missing_packages: the names pacman reports as not installed, in input order
MissingPackages(ps, not_installed) == Keep(ps, not_installed)

\* a split that takes every name for an official one
SplitAllOfficial(ps, official_set) == <<ps, << >>>>

\* _split_official_aur, given the names _which_in_official_repos returns
SplitOfficialAur(ps, official_set) == <<Keep(ps, official_set), Drop(ps, official_set)>>

\* a shell script, by what it does: its kind, the packages it installs, the AUR
\* helper it calls, the GStreamer block appended for Wine, and whether its text
\* calls run_root / run_root_sh
Script(k, off, au, h, g, r) ==
  [kind |-> k, official |-> off, aur |-> au, helper |-> h, gst |-> g, root_calls |-> r]
Plain(k, r) == Script(k, << >>, << >>, None, None, r)
NoScript == Plain(None, FALSE)

\* helper of _build_install_script
AurHelper(mgr, paru, yay) ==
  IF mgr \in {"paru", "yay"} THEN mgr
  ELSE IF paru THEN "paru" ELSE IF yay THEN "yay" ELSE None

\* _build_install_script(official, aur) with mgr = self.pkg_manager or pick_pkg_manager()
BuildInstallScript(off, au, mgr, paru, yay) ==
  IF mgr = None THEN NoScript
  ELSE IF au # << >> /\ AurHelper(mgr, paru, yay) = None /\ mgr # "pamac" THEN NoScript
  ELSE Script("install", off, au,
              IF au = << >> THEN None
              ELSE IF AurHelper(mgr, paru, yay) # None THEN AurHelper(mgr, paru, yay)
              ELSE "pamac",
              None, off # << >>)

\* _script_with_optional_gstreamer: for Wine, the block that asks for GStreamer
\* and runs gst_script; g says which parts gst_script has ("none": not appended)
WithGstreamer(it, s, g) ==
  IF it # "wine" \/ g = None THEN s
  ELSE [s EXCEPT !.gst = g, !.root_calls = s.root_calls \/ g \in {"official", "both"}]

\* the gate reading the detected vendors alone
GateVendorsDetected(d, m) == d

\* vendors of _block_incompatible and its verdict
GateVendors(d, m) == d \cup m
BlockIncompatible(it, d, m) ==
  \/ it = "nvidia-driver" /\ "nvidia" \notin GateVendors(d, m)
  \/ it = "intel-mesa" /\ "intel" \notin GateVendors(d, m)
  \/ it = "amd-mesa" /\ "amd" \notin GateVendors(d, m)

\* _any_installed, given what _missing_packages returns for the same list
AnyInstalled(ps, missing) ==
  /\ ps # << >>
  /\ Cardinality(Range(missing)) < Cardinality(Range(ps))

\* the driver packages _nvidia_packages may select that are built by DKMS
Dkms == {"nvidia-dkms", "nvidia-open-dkms"}

\* line 1885: "nvidia-dkms" in pkgs
HeadersGate(sel) == "nvidia-dkms" \in Range(sel)

\* _nvidia_packages: tags are the flavour tags found in uname -r, in_repo the
\* names _pkg_in_official_repos_cached answers yes for
KernelTags == {"lts", "zen", "cachyos", "hardened"}
NvidiaBase == <<"nvidia-utils", "lib32-nvidia-utils", "vulkan-icd-loader", "lib32-vulkan-icd-loader">>
OpenFirst(tags) == IF tags # {} THEN "nvidia-open-dkms" ELSE "nvidia-open"
OpenSecond(tags) == IF tags # {} THEN "nvidia-open" ELSE "nvidia-open-dkms"
NvidiaPackages(tags, prefer_open, in_repo) ==
  IF prefer_open /\ OpenFirst(tags) \in in_repo THEN <<OpenFirst(tags)>> \o NvidiaBase
  ELSE IF prefer_open /\ OpenSecond(tags) \in in_repo THEN <<OpenSecond(tags)>> \o NvidiaBase
  ELSE IF "lts" \in tags THEN <<"nvidia-lts">> \o NvidiaBase
  ELSE IF tags \cap {"zen", "cachyos", "hardened"} # {} THEN <<"nvidia-dkms">> \o NvidiaBase
  ELSE <<"nvidia">> \o NvidiaBase

\* the source selection with the Flatpak branch tested before the official one
SourcePathFlatpakFirst(off, fid, flatpak_ok) ==
  IF fid # None /\ flatpak_ok THEN "flatpak"
  ELSE IF off # << >> THEN "official"
  ELSE "aur"

\* the three branches of the source selection of handle_action
SourcePath(off, fid, flatpak_ok) ==
  IF off # << >> THEN "official"
  ELSE IF fid # None /\ flatpak_ok THEN "flatpak"
  ELSE "aur"

\* ---------------------------------------------------------------- state
VARIABLES
  euid0,              \* os.geteuid() == 0
  pkexec_on_path,     \* shutil.which("pkexec")
  pkg_manager,        \* self.pkg_manager
  gpu_vendors,        \* self.gpu_vendors
  wrapper_file,       \* RUNROOT_WRAPPER_PATH on disk
  policy_file,        \* RUNROOT_POLICY_PATH on disk
  policy_lock,        \* self._policy_lock: "free" or the thread holding it
  policy_installing,  \* self._policy_installing
  now,                \* int(time.time()*1000)
  runs,               \* the scripts in flight, oldest first
  launched,           \* kinds of the scripts launched while handling the action
  install,            \* fate of the install script launched for the action
  pc,                 \* position of each thread
  ret,                \* where each thread continues after _ensure_polkit_policy
  pend,               \* arguments of the runner call in progress on the control thread
  item,               \* item["id"] of the action being handled
  pkgs, exe, flatpak_id, alt_pkgs,   \* locals of handle_action
  headers,            \* kernel headers installed, for a DKMS driver selected
  det, mods,          \* locals of _block_incompatible
  to_install, official, aur,
  path,               \* branch of the source selection taken
  avail,              \* what flatpak_available() answered at line 2038, if it was asked
  helper_seen,        \* whether a build helper was at hand at the helper check
  outcome,            \* what handle_action last showed the user
  si_cache,           \* the lru_cache of _pkg_in_official_repos_cached
  post_started,       \* the POST_STEPS entry of the action has been called
  actions,            \* user actions started
  calls,              \* direct calls of the runner or the policy installer, per thread
  wpc,                \* position of the runner call whose script is watched
  need_root,          \* need_root of that call
  term_script,        \* the script in the terminal: "none", "running", "ok", "failed"
  sentinel_file,      \* sentinel_path on disk: "absent", "present", "removed"
  watch_clock,        \* seconds of time.monotonic() since the watcher started
  in_time,            \* the sentinel was written before the watcher's deadline
  idle_queue,         \* callbacks handed to GLib.idle_add, not yet run
  window,             \* the main window: "shown" or "iconified"
  dialogs,            \* what the GTK thread has run, oldest first
  fn,                 \* the helper function last applied
  arg,                \* its argument
  ans,                \* what the system answered to its queries
  result                 \* its result

env == <<euid0, pkexec_on_path, pkg_manager, gpu_vendors>>
disk == <<wrapper_file, policy_file>>
policy == <<policy_lock, policy_installing>>
cfgl == <<pkgs, exe, flatpak_id, alt_pkgs, headers>>
gatel == <<det, mods>>
plan == <<to_install, official, aur, path, avail, helper_seen>>
locals == <<item, cfgl, gatel, plan>>
bg == <<now, runs, launched, install>>
calc == <<fn, arg, ans, result>>
watch == <<wpc, need_root, term_script, sentinel_file, watch_clock, in_time,
           idle_queue, window, dialogs>>
vars == <<env, disk, policy, bg, pc, ret, pend, locals, outcome, si_cache,
          post_started, actions, calls, watch, calc>>

CachedNames == {"vkd3d-proton", "vkd3d-proton-bin", "nvidia-open", "nvidia-open-dkms"}

NoPend == [script |-> NoScript, need_root |-> FALSE, ensure_policy |-> FALSE, next |-> "idle"]

\* App.__init__: the session's probes are made once; the policy files are
\* whatever an earlier session left
InitCommon ==
  /\ policy_lock = "free"
  /\ policy_installing = FALSE
  /\ now = 0
  /\ runs = << >>
  /\ launched = {}
  /\ install = None
  /\ pc = [t \in Threads |-> "idle"]
  /\ ret = [t \in Threads |-> "idle"]
  /\ pend = NoPend
  /\ item = None
  /\ pkgs = << >> /\ exe = None /\ flatpak_id = None /\ alt_pkgs = << >>
  /\ headers = None
  /\ det = {} /\ mods = {}
  /\ to_install = << >> /\ official = << >> /\ aur = << >>
  /\ path = None
  /\ avail = None
  /\ helper_seen = None
  /\ outcome = None
  /\ si_cache = [n \in CachedNames |-> "unset"]
  /\ post_started = FALSE
  /\ actions = 0
  /\ calls = [t \in Threads |-> 0]
  /\ term_script = "none"
  /\ sentinel_file = "absent"
  /\ watch_clock = 0
  /\ in_time = FALSE
  /\ idle_queue = << >>
  /\ window = "shown"
  /\ dialogs = << >>

Init ==
  /\ InitCommon
  /\ wpc = "idle"
  /\ need_root = FALSE
  /\ fn = "none" /\ arg = None /\ ans = None /\ result = None
  /\ wrapper_file = "intended"
  /\ policy_file = "intended"
  /\ euid0 \in BOOLEAN
  /\ pkexec_on_path \in BOOLEAN
  /\ pkg_manager \in PkgManagers
  /\ gpu_vendors \in {{}, {"amd"}, {"nvidia"}}

\* ------------------------------------------- _pkg_in_official_repos_cached
\* fresh[n] is what pacman -Si n would answer now; a cached answer wins
Si(fresh, n) == IF si_cache[n] = "unset" THEN fresh[n] ELSE si_cache[n] = "yes"
InRepo(fresh) == {n \in CachedNames : Si(fresh, n)}
Remember(fresh, asked) ==
  [n \in CachedNames |->
     IF n \in asked /\ si_cache[n] = "unset"
       THEN IF fresh[n] THEN "yes" ELSE "no"
       ELSE si_cache[n]]

\* ------------------------------------------------------ the control thread
Ui == "ui"
At(l) == pc[Ui] = l
Goto(l) == pc' = [pc EXCEPT ![Ui] = l]
\* handle_action returns, having last shown o
Done(o) == Goto("return") /\ outcome' = o /\ pend' = pend
\* a call of _open_terminal_and_run_pipeline(s, need_root, ensure_policy); the
\* handler continues at next when it returns
CallRunner(s, root, ens, next) ==
  /\ pend' = [script |-> s, need_root |-> root, ensure_policy |-> ens, next |-> next]
  /\ Goto("run")
  /\ outcome' = outcome
UiFrame == UNCHANGED <<env, watch, calc, disk, policy, bg, ret, actions, calls>>

\* handle_action, entry: the Flathub card has its own flow; every other card
\* first computes the vendors of _block_incompatible
Click(it) ==
  /\ At("idle")
  /\ actions < MaxActions
  /\ actions' = actions + 1
  /\ item' = it
  /\ pkgs' = << >> /\ exe' = None /\ flatpak_id' = None /\ alt_pkgs' = << >>
  /\ headers' = None
  /\ to_install' = << >> /\ official' = << >> /\ aur' = << >> /\ path' = None
  /\ avail' = None
  /\ helper_seen' = None
  /\ outcome' = None
  /\ post_started' = FALSE
  /\ IF it = "flathub"
       THEN /\ det' = {} /\ mods' = {}
            /\ Goto("flathub")
       ELSE /\ \E d \in SUBSET Vendors :
                 det' = IF gpu_vendors # {} THEN gpu_vendors ELSE d
            /\ mods' \in SUBSET Vendors
            /\ Goto("gate")
  /\ launched' = {}
  /\ install' = None
  /\ UNCHANGED <<env, watch, calc, disk, policy, now, runs, ret, pend, si_cache, calls>>

\* handle_action, lines 1878-1889: the compatibility gate, then the item's cfg
Gate ==
  /\ At("gate")
  /\ det' = {} /\ mods' = {}
  /\ IF BlockIncompatible(item, det, mods)
       THEN /\ Done("incompatible")
            /\ UNCHANGED cfgl
       ELSE IF item = "nvidia-driver"
         THEN /\ Goto("nvidia")
              /\ UNCHANGED <<cfgl, outcome, pend>>
         ELSE /\ pkgs' = ACTION_MAP[item].packages
              /\ exe' = ACTION_MAP[item].exec
              /\ flatpak_id' = ACTION_MAP[item].flatpak
              /\ alt_pkgs' = ACTION_MAP[item].alt_packages
              /\ headers' = headers
              /\ Goto("multilib")
              /\ UNCHANGED <<outcome, pend>>
  /\ UNCHANGED <<item, plan, si_cache, post_started>>
  /\ UiFrame

\* handle_action, lines 1882-1887: _nvidia_packages, then _ensure_kernel_headers
\* when nvidia-dkms was selected
Nvidia ==
  /\ At("nvidia")
  /\ \E tags \in SUBSET KernelTags, prefer_open \in BOOLEAN, fresh \in [CachedNames -> BOOLEAN] :
       LET sel == NvidiaPackages(tags, prefer_open, InRepo(fresh))
           asked == IF ~prefer_open THEN {}
                    ELSE IF Si(fresh, OpenFirst(tags)) THEN {OpenFirst(tags)}
                    ELSE {OpenFirst(tags), OpenSecond(tags)}
       IN /\ pkgs' = sel
          /\ si_cache' = Remember(fresh, asked)
          /\ \E headers_installed \in BOOLEAN, cand \in BOOLEAN, ok \in BOOLEAN :
               /\ headers' = IF Range(sel) \cap Dkms = {} THEN None
                             ELSE IF headers_installed THEN "present" ELSE "absent"
               /\ IF HeadersGate(sel) /\ ~headers_installed
                    THEN IF cand /\ ok
                           THEN CallRunner(Plain("headers", TRUE), TRUE, TRUE, "headers_info")
                           ELSE Done("headers_needed")
                    ELSE Goto("multilib") /\ UNCHANGED <<outcome, pend>>
  /\ UNCHANGED <<item, exe, flatpak_id, alt_pkgs, gatel, plan, post_started>>
  /\ UiFrame

\* _ensure_kernel_headers returned False after launching the header install
HeadersInfo ==
  /\ At("headers_info")
  /\ Done("headers_needed")
  /\ UNCHANGED <<locals, si_cache, post_started>>
  /\ UiFrame

\* the [multilib] prompt of handle_action (lines 1938-1954 and 1997-2013)
MultilibPrompt(next) ==
  \E ok \in BOOLEAN :
    IF ok
      THEN CallRunner(Plain("multilib", TRUE), TRUE, TRUE, next)
      ELSE Done("multilib_manual")

\* handle_action, lines 1937-1954: the explicit multilib trigger
Multilib ==
  /\ At("multilib")
  /\ \E enabled \in BOOLEAN :
       IF item \in MultilibItems /\ ~enabled
         THEN MultilibPrompt("open")
         ELSE Goto("open") /\ UNCHANGED <<outcome, pend>>
  /\ UNCHANGED <<locals, si_cache, post_started>>
  /\ UiFrame

\* handle_action, lines 1956-1975: resolve virtual packages, then offer "open"
\* when the executable is on PATH or the Flatpak app is installed
Open ==
  /\ At("open")
  /\ \E fresh \in [CachedNames -> BOOLEAN] :
       LET asked == IF "vkd3d-proton" \notin Range(pkgs) THEN {}
                    ELSE IF Si(fresh, "vkd3d-proton") THEN {"vkd3d-proton"}
                    ELSE {"vkd3d-proton", "vkd3d-proton-bin"}
       IN /\ pkgs' = ResolveVirtualPkgs(pkgs, InRepo(fresh))
          /\ si_cache' = Remember(fresh, asked)
  /\ \E exe_found \in BOOLEAN, flatpak_ok \in BOOLEAN, ok \in BOOLEAN :
       IF exe # None /\ exe_found
         THEN IF ok /\ exe \in CliLike
                THEN /\ pend' = [script |-> Plain("open_cli", FALSE), need_root |-> FALSE,
                                 ensure_policy |-> FALSE, next |-> "return"]
                     /\ Goto("run")
                     /\ outcome' = "open_exe"
                ELSE Done("open_exe")
         ELSE IF flatpak_id # None /\ flatpak_ok
           THEN Done("open_flatpak")
           ELSE Goto("missing") /\ UNCHANGED <<outcome, pend>>
  /\ UNCHANGED <<item, exe, flatpak_id, alt_pkgs, headers, gatel, plan, post_started>>
  /\ UiFrame

\* handle_action, lines 1977-1994: what is missing; nothing to install
Missing ==
  /\ At("missing")
  /\ \E not_installed \in SUBSET Listed(pkgs), alt_missing \in SUBSET Listed(alt_pkgs) :
       /\ to_install' =
            IF /\ MissingPackages(pkgs, not_installed) # << >>
               /\ alt_pkgs # << >>
               /\ AnyInstalled(alt_pkgs, MissingPackages(alt_pkgs, alt_missing))
              THEN << >>
              ELSE MissingPackages(pkgs, not_installed)
  /\ IF to_install' = << >>
       THEN IF exe # None THEN Done("open_installed") ELSE Done("nothing_to_install")
       ELSE Goto("multilib2") /\ UNCHANGED <<outcome, pend>>
  /\ UNCHANGED <<item, cfgl, gatel, official, aur, path, avail, helper_seen, si_cache,
                 post_started>>
  /\ UiFrame

\* handle_action, lines 1996-2013: the lib32-* multilib fallback
Multilib2 ==
  /\ At("multilib2")
  /\ \E enabled \in BOOLEAN :
       IF Range(to_install) \cap Lib32 # {} /\ ~enabled
         THEN MultilibPrompt("select")
         ELSE Goto("select") /\ UNCHANGED <<outcome, pend>>
  /\ UNCHANGED <<locals, si_cache, post_started>>
  /\ UiFrame

\* handle_action, lines 2015-2020, 2038, 2047: the split and the branch taken
Select ==
  /\ At("select")
  /\ \E official_set \in SUBSET Range(to_install), flatpak_ok \in BOOLEAN :
       /\ official' = SplitOfficialAur(to_install, official_set)[1]
       /\ aur' = SplitOfficialAur(to_install, official_set)[2]
       /\ path' = SourcePath(official', flatpak_id, flatpak_ok)
       /\ avail' = IF official' # << >> \/ flatpak_id = None THEN None
                   ELSE IF flatpak_ok THEN "yes" ELSE "no"
  /\ Goto(IF path' = "flatpak" THEN "flathub_remote" ELSE "helper")
  /\ UNCHANGED <<item, cfgl, gatel, to_install, helper_seen, outcome, pend, si_cache,
                 post_started>>
  /\ UiFrame

\* the packages handed to _build_install_script by the branch taken
PlanOfficial == IF path = "official" THEN official ELSE << >>
PlanAur == IF path = "official" THEN aur ELSE to_install

\* the PATH is asked for paru/yay only when the third-party part is non-empty and
\* the session's package manager is not itself a way to build (lines 2021, 2049)
HelperConsulted ==
  /\ path = "official" => aur # << >>
  /\ pkg_manager \notin {"paru", "yay", "pamac"}

\* a handler that never finds a helper to be needed
NeedHelperNever(paru, yay) == FALSE

\* need_helper of handle_action (lines 2021 and 2049)
NeedHelper(paru, yay) ==
  /\ path = "official" => aur # << >>
  /\ pkg_manager \notin {"paru", "yay", "pamac"}
  /\ ~(paru \/ yay)

\* handle_action, lines 2021-2026 and 2049-2054, with _ensure_aur_helper_auto
Helper ==
  /\ At("helper")
  /\ \E paru \in BOOLEAN, yay \in BOOLEAN, found \in BOOLEAN,
        in_repo \in BOOLEAN, pamac \in BOOLEAN :
       /\ IF ~NeedHelper(paru, yay) \/ found
            THEN Goto("build") /\ UNCHANGED <<outcome, pend>>
            ELSE IF in_repo \/ pamac
              THEN CallRunner(Plain("helper", TRUE), TRUE, TRUE, "helper_abort")
              ELSE IF pkg_manager # "pamac"
                THEN Done("helper_missing")
                ELSE Goto("build") /\ UNCHANGED <<outcome, pend>>
       /\ helper_seen' = IF ~HelperConsulted THEN None
                         ELSE IF paru \/ yay \/ found THEN "present" ELSE "absent"
  /\ UNCHANGED <<item, cfgl, gatel, to_install, official, aur, path, avail,
                 si_cache, post_started>>
  /\ UiFrame

\* _ensure_aur_helper_auto returned None after launching the helper's install
HelperAbort ==
  /\ At("helper_abort")
  /\ IF pkg_manager # "pamac"
       THEN Done("helper_missing")
       ELSE Goto("build") /\ UNCHANGED <<outcome, pend>>
  /\ UNCHANGED <<locals, si_cache, post_started>>
  /\ UiFrame

GstParts == {None, "official", "aur", "both"}

\* handle_action, lines 2027-2036 and 2055-2064: build, confirm, launch
Build ==
  /\ At("build")
  /\ \E picked \in PkgManagers, paru \in BOOLEAN, yay \in BOOLEAN,
        g \in GstParts, ok \in BOOLEAN :
       LET mgr == IF pkg_manager # None THEN pkg_manager ELSE picked
           s == BuildInstallScript(PlanOfficial, PlanAur, mgr, paru, yay)
       IN IF s = NoScript
            THEN Done("script_failed")
            ELSE IF ok
              THEN CallRunner(WithGstreamer(item, s, g), TRUE, TRUE, "post")
              ELSE Done("declined")
  /\ UNCHANGED <<locals, si_cache, post_started>>
  /\ UiFrame

\* handle_action, line 2041: _ensure_flathub
FlathubRemote ==
  /\ At("flathub_remote")
  /\ \E flatpak_ok \in BOOLEAN, remote \in BOOLEAN :
       IF flatpak_ok /\ ~remote
         THEN CallRunner(Plain("flatpak_remote", FALSE), FALSE, TRUE, "flatpak_confirm")
         ELSE Goto("flatpak_confirm") /\ UNCHANGED <<outcome, pend>>
  /\ UNCHANGED <<locals, si_cache, post_started>>
  /\ UiFrame

\* handle_action, lines 2042-2045: confirm and launch the Flatpak install
FlatpakConfirm ==
  /\ At("flatpak_confirm")
  /\ \E ok \in BOOLEAN :
       IF ok
         THEN CallRunner(Plain("flatpak_install", FALSE), FALSE, TRUE, "post")
         ELSE Done("declined")
  /\ UNCHANGED <<locals, si_cache, post_started>>
  /\ UiFrame

\* handle_action, lines 2066-2072: the POST_STEPS entry, called as soon as the
\* runner has returned.  _post_gamemode starts a plain thread; the others call
\* the runner with a root script
Post ==
  /\ At("post")
  /\ IF item \in POST_STEPS
       THEN /\ post_started' = TRUE
            /\ IF item = "gamemode"
                 THEN Goto("nvidia_post") /\ UNCHANGED <<outcome, pend>>
                 ELSE CallRunner(Plain("post", TRUE), TRUE, TRUE, "nvidia_post")
       ELSE /\ Goto("nvidia_post")
            /\ UNCHANGED <<outcome, pend, post_started>>
  /\ UNCHANGED <<locals, si_cache>>
  /\ UiFrame

\* handle_action, lines 2074-2078: NVIDIA, regenerate the initramfs
NvidiaPost ==
  /\ At("nvidia_post")
  /\ \E loaded \in BOOLEAN, ok \in BOOLEAN :
       IF item = "nvidia-driver" /\ loaded /\ ok
         THEN CallRunner(Plain("initramfs", TRUE), TRUE, TRUE, "reboot")
         ELSE Done("launched")
  /\ UNCHANGED <<locals, si_cache, post_started>>
  /\ UiFrame

\* handle_action, lines 2079-2080: NVIDIA, reboot
Reboot ==
  /\ At("reboot")
  /\ \E ok \in BOOLEAN :
       IF ok
         THEN /\ pend' = [script |-> Plain("reboot", TRUE), need_root |-> TRUE,
                          ensure_policy |-> TRUE, next |-> "return"]
              /\ Goto("run")
              /\ outcome' = "launched"
         ELSE Done("launched")
  /\ UNCHANGED <<locals, si_cache, post_started>>
  /\ UiFrame

\* _flathub_card_flow
FlathubCard ==
  /\ At("flathub")
  /\ \E flatpak_ok \in BOOLEAN, remote \in BOOLEAN, ok \in BOOLEAN,
        picked \in PkgManagers :
       LET mgr == IF pkg_manager # None THEN pkg_manager ELSE picked
           s == BuildInstallScript(<<"flatpak">>, << >>, mgr, FALSE, FALSE)
       IN IF flatpak_ok /\ remote THEN Done("flathub_active")
          ELSE IF ~ok THEN Done("declined")
          ELSE IF flatpak_ok
            THEN CallRunner(Plain("flatpak_remote", FALSE), FALSE, TRUE, "flathub_info")
          ELSE IF s = NoScript THEN Done("script_failed")
          ELSE CallRunner(s, TRUE, TRUE, "flathub_info")
  /\ UNCHANGED <<locals, si_cache, post_started>>
  /\ UiFrame

FlathubInfo ==
  /\ At("flathub_info")
  /\ Done("flathub_active")
  /\ UNCHANGED <<locals, si_cache, post_started>>
  /\ UiFrame

\* handle_action returns: its locals are gone
Return ==
  /\ At("return")
  /\ Goto("idle")
  /\ pkgs' = << >> /\ exe' = None /\ flatpak_id' = None /\ alt_pkgs' = << >>
  /\ headers' = None
  /\ det' = {} /\ mods' = {}
  /\ to_install' = << >> /\ official' = << >> /\ aur' = << >> /\ path' = None
  /\ avail' = None
  /\ helper_seen' = None
  /\ UNCHANGED <<item, outcome, pend, si_cache, post_started>>
  /\ UiFrame

\* ------------------------------------------ _open_terminal_and_run_pipeline
\* lines 1421-1429 and 1489-1502: the sentinel path is made of the pid and the
\* millisecond clock; the script is started in a background thread and the
\* call returns.  d is the time that passed since the clock was last read
InstallKinds == {"install", "flatpak_install"}
Launch(s, root, ens) ==
  /\ \E d \in 0..1 :
       /\ now + d <= MaxClock
       /\ now' = now + d
       /\ runs' = Append(runs, [script |-> s,
                                mode |-> RunModeOf(root, euid0, pkexec_on_path),
                                need_root |-> root,
                                run_root |-> RunRootDef(root, euid0, pkexec_on_path),
                                ensure_policy |-> ens,
                                sentinel |-> now',
                                act |-> actions])
  /\ launched' = launched \cup {s.kind}
  /\ install' = IF s.kind \in InstallKinds THEN "launched" ELSE install

\* lines 1395-1397: in root-pkexec mode the runner calls _ensure_polkit_policy
\* first, unless an install of the policy is in progress
NeedsPolicy(root, ens) ==
  /\ RunModeOf(root, euid0, pkexec_on_path) = "root-pkexec"
  /\ ens
  /\ ~policy_installing

RunnerEnter ==
  /\ At("run")
  /\ IF NeedsPolicy(pend.need_root, pend.ensure_policy)
       THEN /\ Goto("pol_flag")
            /\ ret' = [ret EXCEPT ![Ui] = "run_launch"]
            /\ UNCHANGED <<bg, pend>>
       ELSE /\ Launch(pend.script, pend.need_root, pend.ensure_policy)
            /\ Goto(pend.next)
            /\ pend' = NoPend
            /\ UNCHANGED ret
  /\ UNCHANGED <<env, watch, calc, disk, policy, locals, outcome, si_cache, post_started, actions, calls>>

\* the runner goes on after _ensure_polkit_policy has returned
RunnerLaunch ==
  /\ At("run_launch")
  /\ Launch(pend.script, pend.need_root, pend.ensure_policy)
  /\ Goto(pend.next)
  /\ pend' = NoPend
  /\ UNCHANGED <<env, watch, calc, disk, policy, ret, locals, outcome, si_cache, post_started,
                 actions, calls>>

\* the control thread calls the runner outside handle_action
CallRunnerDirect ==
  /\ At("idle")
  /\ calls[Ui] < MaxCalls
  /\ calls' = [calls EXCEPT ![Ui] = @ + 1]
  /\ \E root \in BOOLEAN :
       pend' = IF root
                 THEN [script |-> Plain("post", TRUE), need_root |-> TRUE,
                       ensure_policy |-> TRUE, next |-> "idle"]
                 ELSE [script |-> Plain("open_cli", FALSE), need_root |-> FALSE,
                       ensure_policy |-> FALSE, next |-> "idle"]
  /\ Goto("run")
  /\ UNCHANGED <<env, watch, calc, disk, policy, bg, ret, locals, outcome, si_cache, post_started, actions>>

\* ---------------------------------------------------- _ensure_polkit_policy
PolFrame == UNCHANGED <<env, watch, calc, disk, pend, locals, outcome, si_cache, post_started, actions>>

\* a thread other than the control thread calls _ensure_polkit_policy, in the
\* mode in which the program calls it
CallEnsure(t) ==
  /\ t # Ui
  /\ RunModeOf(TRUE, euid0, pkexec_on_path) = "root-pkexec"
  /\ pc[t] = "idle"
  /\ calls[t] < MaxCalls
  /\ calls' = [calls EXCEPT ![t] = @ + 1]
  /\ pc' = [pc EXCEPT ![t] = "pol_flag"]
  /\ ret' = [ret EXCEPT ![t] = "idle"]
  /\ UNCHANGED <<policy, bg>>
  /\ PolFrame

\* line 1349: the flag is read before the lock is taken
PolFlag(t) ==
  /\ pc[t] = "pol_flag"
  /\ pc' = [pc EXCEPT ![t] = IF policy_installing THEN ret[t] ELSE "pol_lock"]
  /\ UNCHANGED <<policy, bg, ret, calls>>
  /\ PolFrame

\* line 1351: with self._policy_lock
PolLock(t) ==
  /\ pc[t] = "pol_lock"
  /\ policy_lock = "free"
  /\ policy_lock' = t
  /\ pc' = [pc EXCEPT ![t] = "pol_set"]
  /\ UNCHANGED <<policy_installing, bg, ret, calls>>
  /\ PolFrame

\* line 1352
PolSet(t) ==
  /\ pc[t] = "pol_set"
  /\ policy_installing' = TRUE
  /\ pc' = [pc EXCEPT ![t] = "pol_cmp"]
  /\ UNCHANGED <<policy_lock, bg, ret, calls>>
  /\ PolFrame

\* lines 1364-1366: compare the files on disk; launch the write pipeline when
\* they differ (the runner is called with ensure_policy=False)
PolCmp(t) ==
  /\ pc[t] = "pol_cmp"
  /\ IF PolicyCheck(wrapper_file, policy_file)
       THEN UNCHANGED bg
       ELSE Launch(Plain("policy", TRUE), TRUE, FALSE)
  /\ pc' = [pc EXCEPT ![t] = "pol_fin"]
  /\ UNCHANGED <<policy, ret, calls>>
  /\ PolFrame

\* a call that leaves the flag set
PolFinLeak(t) ==
  /\ pc[t] = "pol_fin"
  /\ pc' = [pc EXCEPT ![t] = "pol_unlock"]
  /\ UNCHANGED <<policy, bg, ret, calls>>
  /\ PolFrame

\* lines 1367-1368: finally
PolFin(t) ==
  /\ pc[t] = "pol_fin"
  /\ policy_installing' = FALSE
  /\ pc' = [pc EXCEPT ![t] = "pol_unlock"]
  /\ UNCHANGED <<policy_lock, bg, ret, calls>>
  /\ PolFrame

\* the with block is left: the lock is released and the call returns
PolUnlock(t) ==
  /\ pc[t] = "pol_unlock"
  /\ policy_lock' = "free"
  /\ pc' = [pc EXCEPT ![t] = ret[t]]
  /\ UNCHANGED <<policy_installing, bg, ret, calls>>
  /\ PolFrame

EnsurePolkitPolicy(t) ==
  \/ PolFlag(t)
  \/ PolLock(t)
  \/ PolSet(t)
  \/ PolCmp(t)
  \/ PolFin(t)
  \/ PolUnlock(t)

\* ------------------------------------------------------ the launched scripts
RunFrame == UNCHANGED <<env, watch, calc, policy, now, launched, pc, ret, pend, locals, outcome, si_cache,
                        post_started, actions, calls>>

\* run_root / run_root_sh of root-pkexec mode are pkexec RUNROOT_WRAPPER_PATH:
\* a script that calls them gets nowhere without the wrapper on disk
CanRunRoot(r) ==
  (r.script.root_calls /\ r.mode = "root-pkexec") => wrapper_file # "absent"

\* the install script of the action being handled ends with result res
Installed(r, res) ==
  IF r.script.kind \in InstallKinds /\ r.act = actions THEN res ELSE install

\* script i runs to its end; the policy script (lines 1334-1348) has then
\* written the wrapper and the policy
RunOk(i) ==
  /\ CanRunRoot(runs[i])
  /\ runs' = RemoveAt(runs, i)
  /\ install' = Installed(runs[i], "ok")
  /\ IF runs[i].script.kind = "policy"
       THEN wrapper_file' = "intended" /\ policy_file' = "intended"
       ELSE UNCHANGED disk
  /\ RunFrame

\* script i stops with an error (a command fails, the authorization is
\* refused, the terminal cannot be spawned)
RunFail(i) ==
  /\ runs' = RemoveAt(runs, i)
  /\ install' = Installed(runs[i], "failed")
  /\ UNCHANGED disk
  /\ RunFrame

\* ------------------------------------------------------------ specifications
HandleAction ==
  \/ \E it \in Items : Click(it)
  \/ Gate
  \/ Nvidia
  \/ HeadersInfo
  \/ Multilib
  \/ Open
  \/ Missing
  \/ Multilib2
  \/ Select
  \/ Helper
  \/ HelperAbort
  \/ Build
  \/ FlathubRemote
  \/ FlatpakConfirm
  \/ Post
  \/ NvidiaPost
  \/ Reboot
  \/ FlathubCard
  \/ FlathubInfo
  \/ Return

Scripts == \E i \in 1..Len(runs) : RunOk(i) \/ RunFail(i)

Next ==
  \/ HandleAction
  \/ RunnerEnter
  \/ RunnerLaunch
  \/ EnsurePolkitPolicy(Ui)
  \/ Scripts

Spec == Init /\ [][Next]_vars

\* the runner and the policy installer driven directly: the control thread
\* calls the runner in one of the two shapes the program uses (a root script
\* with the default ensure_policy, or the executable of line 1965), while a
\* second thread calls _ensure_polkit_policy
InitRunner ==
  /\ InitCommon
  /\ wpc = "idle"
  /\ need_root = FALSE
  /\ fn = "none" /\ arg = None /\ ans = None /\ result = None
  /\ wrapper_file \in FileStates
  /\ policy_file \in FileStates
  /\ euid0 \in BOOLEAN
  /\ pkexec_on_path \in BOOLEAN
  /\ pkg_manager = "pacman"
  /\ gpu_vendors = {}

NextRunner ==
  \/ CallRunnerDirect
  \/ RunnerEnter
  \/ RunnerLaunch
  \/ \E t \in Threads : EnsurePolkitPolicy(t)
  \/ CallEnsure("t1")
  \/ Scripts

SpecRunner == InitRunner /\ [][NextRunner]_vars

\* ------------------------------------- the terminal, the watcher, the window
\* one call of _open_terminal_and_run_pipeline from line 1438 on, the script it
\* starts, its watcher thread and the GTK loop running the idle callbacks.
\* Deadline stands for the 4 hours of line 1223, in polls of one second
Deadline == 3

WatchFrame == UNCHANGED <<env, calc, disk, policy, bg, pc, ret, pend, locals, outcome, si_cache,
                          post_started, actions, calls, need_root>>

\* a runner that asks every watcher to restore the window
RestoreAlways == TRUE

\* restore_window, the second argument of the watcher (line 1495)
RestoreWindow == RunModeOf(need_root, euid0, pkexec_on_path) = "root-sudo"

\* lines 1438-1487: the terminal is looked for; without one the headless worker
\* is started and the call returns; with one the window is iconified in
\* root-sudo mode and the worker thread is started
FindTerminal ==
  /\ wpc = "call"
  /\ \E found \in BOOLEAN :
       IF ~found
         THEN wpc' = "headless" /\ idle_queue' = idle_queue
         ELSE /\ wpc' = "worker"
              /\ idle_queue' = IF RunModeOf(need_root, euid0, pkexec_on_path) = "root-sudo"
                                  THEN Append(idle_queue, "iconify")
                                  ELSE idle_queue
  /\ UNCHANGED <<term_script, sentinel_file, watch_clock, in_time, window, dialogs>>
  /\ WatchFrame

\* worker_headless, lines 1458-1478: bash runs the script to its end (the
\* sentinel is written when the script gets that far) and the closing dialog
\* is handed to the GTK thread; an exception hands the error dialog instead
WorkerHeadless ==
  /\ wpc = "headless"
  /\ \E ok \in BOOLEAN, wrote \in BOOLEAN :
       /\ idle_queue' = Append(idle_queue, IF ok THEN "done_msg" ELSE "error")
       /\ sentinel_file' = IF ok /\ wrote THEN "present" ELSE sentinel_file
       /\ term_script' = IF ok THEN (IF wrote THEN "ok" ELSE "failed") ELSE "none"
  /\ wpc' = "headless_end"
  /\ UNCHANGED <<watch_clock, in_time, window, dialogs>>
  /\ WatchFrame

\* worker, lines 1489-1499: Popen of the terminal, then the watcher thread is
\* started; an exception hands the error dialog to the GTK thread
Worker ==
  /\ wpc = "worker"
  /\ \E ok \in BOOLEAN :
       IF ok
         THEN /\ term_script' = "running"
              /\ wpc' = "watch"
              /\ idle_queue' = idle_queue
         ELSE /\ term_script' = term_script
              /\ wpc' = "worker_failed"
              /\ idle_queue' = Append(idle_queue, "error")
  /\ UNCHANGED <<sentinel_file, watch_clock, in_time, window, dialogs>>
  /\ WatchFrame

\* the script in the terminal reaches its last command, printf DONE > sentinel
\* (line 1427)
ScriptDone ==
  /\ term_script = "running"
  /\ term_script' = "ok"
  /\ sentinel_file' = "present"
  /\ in_time' = (watch_clock < Deadline)
  /\ UNCHANGED <<wpc, watch_clock, idle_queue, window, dialogs>>
  /\ WatchFrame

\* the script stops before its last command: set -e, a refused authorization,
\* the terminal closed by the user
ScriptStop ==
  /\ term_script = "running"
  /\ term_script' = "failed"
  /\ UNCHANGED <<wpc, sentinel_file, watch_clock, in_time, idle_queue, window, dialogs>>
  /\ WatchFrame

\* _wait_sentinel_then_notify, lines 1225-1230: one turn of the loop; the file
\* seen is removed and the loop is left
WatchPoll ==
  /\ wpc = "watch"
  /\ watch_clock < Deadline
  /\ IF sentinel_file = "present"
       THEN sentinel_file' = "removed" /\ wpc' = "finally"
       ELSE sentinel_file' = sentinel_file /\ wpc' = "sleep"
  /\ UNCHANGED <<term_script, watch_clock, in_time, idle_queue, window, dialogs>>
  /\ WatchFrame

\* line 1231: time.sleep(1.0)
WatchSleep ==
  /\ wpc = "sleep"
  /\ watch_clock' = watch_clock + 1
  /\ wpc' = "watch"
  /\ UNCHANGED <<term_script, sentinel_file, in_time, idle_queue, window, dialogs>>
  /\ WatchFrame

\* line 1225: the loop condition fails, the deadline has passed
WatchTimeout ==
  /\ wpc = "watch"
  /\ watch_clock >= Deadline
  /\ wpc' = "finally"
  /\ UNCHANGED <<term_script, sentinel_file, watch_clock, in_time, idle_queue, window, dialogs>>
  /\ WatchFrame

\* lines 1232-1240, the finally block: the callbacks handed to the GTK thread
Notify(restore_window) ==
  IF restore_window THEN <<"deiconify", "present", "finished">> ELSE <<"finished">>
\* a watcher that shows its dialogs itself
WatchFinallyDirect ==
  /\ wpc = "finally"
  /\ dialogs' = dialogs \o Notify(RestoreWindow)
  /\ wpc' = "end"
  /\ UNCHANGED <<term_script, sentinel_file, watch_clock, in_time, window, idle_queue>>
  /\ WatchFrame

WatchFinally ==
  /\ wpc = "finally"
  /\ idle_queue' = idle_queue \o Notify(RestoreWindow)
  /\ wpc' = "end"
  /\ UNCHANGED <<term_script, sentinel_file, watch_clock, in_time, window, dialogs>>
  /\ WatchFrame

\* the GTK main loop runs the oldest idle callback, once the handler that
\* called the runner has returned to it
IdleRun ==
  /\ wpc # "call"
  /\ idle_queue # << >>
  /\ idle_queue' = Tail(idle_queue)
  /\ dialogs' = Append(dialogs, Head(idle_queue))
  /\ window' = IF Head(idle_queue) = "iconify" THEN "iconified"
                ELSE IF Head(idle_queue) \in {"deiconify", "present"} THEN "shown"
                ELSE window
  /\ UNCHANGED <<wpc, term_script, sentinel_file, watch_clock, in_time>>
  /\ WatchFrame

WaitSentinelThenNotify == WatchPoll \/ WatchSleep \/ WatchTimeout \/ WatchFinally

InitWatch ==
  /\ InitCommon
  /\ fn = "none" /\ arg = None /\ ans = None /\ result = None
  /\ wpc = "call"
  /\ need_root \in BOOLEAN
  /\ wrapper_file = "intended"
  /\ policy_file = "intended"
  /\ euid0 \in BOOLEAN
  /\ pkexec_on_path \in BOOLEAN
  /\ pkg_manager = "pacman"
  /\ gpu_vendors = {}

NextWatch ==
  \/ FindTerminal
  \/ WorkerHeadless
  \/ Worker
  \/ ScriptDone
  \/ ScriptStop
  \/ WaitSentinelThenNotify
  \/ IdleRun

SpecWatch == InitWatch /\ [][NextWatch]_vars

\* the threads of the program keep running and the GTK loop keeps serving its
\* queue; nothing makes a script end
SpecWatchFair ==
  /\ SpecWatch
  /\ WF_vars(FindTerminal)
  /\ WF_vars(WorkerHeadless)
  /\ WF_vars(Worker)
  /\ WF_vars(WaitSentinelThenNotify)
  /\ WF_vars(IdleRun)

\* ------------------------------------------------- the package-list helpers
\* _resolve_virtual_pkgs, _missing_packages and _split_official_aur applied to
\* package lists, alone or one after the other as handle_action chains them
\* (lines 1957, 1978, 2016)
MaxLen == 3
PkgNames == {"", "vkd3d-proton", "vkd3d-proton-bin", "nvidia-open"}
PkgLists == UNION {[1..n -> PkgNames] : n \in 0..MaxLen}
Queries == {"answered", "error", "unrunnable"}

\* [p for p in pkgs if p]
NonEmpty(ps) == SelectSeq(ps, LAMBDA p : p # "")
\* [ln.strip() for ln in out.splitlines() if ln.strip()]
Lines(out) == SelectSeq(out, LAMBDA ln : ln # "")
Reverse(s) == [i \in 1..Len(s) |-> s[Len(s) + 1 - i]]

\* pacman -T targets, with stderr dropped: the targets that are not satisfied are
\* printed one per line, in the order given, and the exit code is 127 when there
\* is one; when pacman cannot do the test it prints nothing on stdout and exits 1
PacmanT(targets, unmet, q) ==
  IF q = "error" THEN [code |-> 1, out |-> << >>]
  ELSE [code |-> IF Keep(targets, unmet) = << >> THEN 0 ELSE 127,
        out |-> Keep(targets, unmet)]

\* a _missing_packages that lists the last package first
MissingPackagesNewestFirst(ps, q, unmet) == Reverse(Keep(NonEmpty(ps), unmet))

\* _missing_packages, lines 1261-1277: q = "unrunnable" is check_output raising
\* something other than CalledProcessError; unmet are the names pacman does not
\* find installed
MissingPackagesQuery(ps, q, unmet) ==
  IF NonEmpty(ps) = << >> THEN << >>
  ELSE IF q = "unrunnable"
    THEN SelectSeq(NonEmpty(ps), LAMBDA p : p \in unmet)
    ELSE Lines(PacmanT(NonEmpty(ps), unmet, q).out)

\* the per-package loop of lines 1272-1277 was run
QueriedEach(ps, q) == NonEmpty(ps) # << >> /\ q = "unrunnable"

\* _which_in_official_repos, lines 966-977: the Name lines of pacman -Si for the
\* targets the sync database has, or the cached per-package answers when the
\* batch cannot be run
WhichInOfficialRepos(ps, runnable, fresh) ==
  IF NonEmpty(ps) = << >> THEN {}
  ELSE IF runnable
    THEN Range(Lines(Keep(NonEmpty(ps), {n \in CachedNames : fresh[n]})))
    ELSE {n \in Range(NonEmpty(ps)) : Si(fresh, n)}

CalcFrame == UNCHANGED <<env, watch, disk, policy, bg, pc, ret, pend, locals, outcome,
                         post_started, actions, calls>>

\* pkgs = self._resolve_virtual_pkgs(pkgs)
ApplyResolve ==
  /\ fn = "none"
  /\ \E fresh \in [CachedNames -> BOOLEAN] :
       LET asked == IF "vkd3d-proton" \notin Range(result) THEN {}
                    ELSE IF Si(fresh, "vkd3d-proton") THEN {"vkd3d-proton"}
                    ELSE {"vkd3d-proton", "vkd3d-proton-bin"}
       IN /\ result' = ResolveVirtualPkgs(result, InRepo(fresh))
          /\ ans' = [primary |-> Si(fresh, "vkd3d-proton")]
          /\ si_cache' = Remember(fresh, asked)
  /\ fn' = "resolve"
  /\ arg' = result
  /\ CalcFrame

\* missing = self._missing_packages(pkgs)
ApplyMissing ==
  /\ fn \in {"none", "resolve"}
  /\ \E q \in Queries, unmet \in SUBSET (PkgNames \ {""}) :
       /\ result' = MissingPackagesQuery(result, q, unmet)
       /\ ans' = [q |-> q, unmet |-> unmet, each |-> QueriedEach(result, q),
                  virtual |-> fn = "resolve" /\ ~ans.primary]
  /\ fn' = "missing"
  /\ arg' = result
  /\ UNCHANGED si_cache
  /\ CalcFrame

\* official, aur = self._split_official_aur(to_install)
ApplySplit ==
  /\ fn \in {"none", "missing"}
  /\ \E runnable \in BOOLEAN, fresh \in [CachedNames -> BOOLEAN] :
       /\ result' = SplitOfficialAur(result, WhichInOfficialRepos(result, runnable, fresh))
       /\ ans' = [runnable |-> runnable,
                  reported |-> IF runnable THEN {n \in CachedNames : fresh[n]}
                               ELSE InRepo(fresh),
                  virtual |-> fn = "missing" /\ ans.virtual]
       /\ si_cache' = IF runnable \/ NonEmpty(result) = << >> THEN si_cache
                      ELSE Remember(fresh, Range(NonEmpty(result)))
  /\ fn' = "split"
  /\ arg' = result
  /\ CalcFrame

InitPkgs ==
  /\ InitCommon
  /\ wpc = "idle"
  /\ need_root = FALSE
  /\ wrapper_file = "intended"
  /\ policy_file = "intended"
  /\ euid0 = FALSE
  /\ pkexec_on_path = TRUE
  /\ pkg_manager = "pacman"
  /\ gpu_vendors = {}
  /\ fn = "none"
  /\ arg = None
  /\ ans = None
  /\ result \in PkgLists

NextPkgs ==
  \/ ApplyResolve
  \/ ApplyMissing
  \/ ApplySplit

SpecPkgs == InitPkgs /\ [][NextPkgs]_vars

\* ------------------------------------------------------- _choose_zram_params
\* the RAM sizes and core counts _detect_total_ram_mib and _detect_cpu_count
\* may return
MaxRamMiB == 66560
CoreCounts == {1, 8, 9}

\* a size taken as half of the RAM whatever the RAM is
ZramBaseHalf(ram_mib) == ram_mib \div 2

\* lines 1812-1821: the size before rounding; int(ram_mib * 0.75) is exact
ZramBase(ram_mib) ==
  IF ram_mib <= 4096 THEN ram_mib
  ELSE IF ram_mib <= 8192 THEN (3 * ram_mib) \div 4
  ELSE IF ram_mib <= 16384 THEN ram_mib \div 2
  ELSE IF ram_mib <= 65536 THEN 8192
  ELSE 16384

\* a rounding to the next multiple of 256
ZramRoundUp(size_mib) == ((size_mib + 255) \div 256) * 256

\* line 1822: max(256, (size_mib // 256) * 256)
ZramRound(size_mib) ==
  IF (size_mib \div 256) * 256 < 256 THEN 256 ELSE (size_mib \div 256) * 256

\* line 1823: the label, as the number printed and the unit letter after it
SizeStr(size_mib) ==
  IF size_mib % 1024 = 0 THEN [n |-> size_mib \div 1024, unit |-> "G"]
  ELSE [n |-> size_mib, unit |-> "M"]

\* _choose_zram_params, lines 1808-1826
ChooseZramParams(ram_mib, cores) ==
  [size_str |-> SizeStr(ZramRound(ZramBase(ram_mib))),
   comp |-> IF cores <= 2 THEN "lzo-rle" ELSE IF cores <= 8 THEN "lz4" ELSE "zstd",
   swap |-> IF ram_mib <= 8192 THEN 100 ELSE IF ram_mib <= 16384 THEN 80 ELSE 60]

\* size_str, comp, swappiness = self._choose_zram_params()
ApplyChooseZram ==
  /\ fn = "none"
  /\ fn' = "zram"
  /\ result' = ChooseZramParams(arg.ram_mib, arg.cores)
  /\ UNCHANGED <<arg, ans, si_cache>>
  /\ CalcFrame

InitZram ==
  /\ InitCommon
  /\ wpc = "idle"
  /\ need_root = FALSE
  /\ wrapper_file = "intended"
  /\ policy_file = "intended"
  /\ euid0 = FALSE
  /\ pkexec_on_path = TRUE
  /\ pkg_manager = "pacman"
  /\ gpu_vendors = {}
  /\ fn = "none"
  /\ arg \in [ram_mib : 0..MaxRamMiB, cores : CoreCounts]
  /\ ans = None
  /\ result = None

NextZram == ApplyChooseZram

SpecZram == InitZram /\ [][NextZram]_vars

\* -------------------------------------------------------- detect_gpu_vendors
\* what the three probes can see: the vendor names in the lspci output, the
\* vendor id of each /sys/class/drm card, the GPU modules lsmod lists
MaxCards == 2
VendorIds == {"10de", "1002", "8086", "1234"}
CardLists == UNION {[1..n -> VendorIds] : n \in 0..MaxCards}

\* list(dict.fromkeys(s)): the first occurrence of each element, in order
Dedup(s) ==
  LET f[k \in 0..Len(s)] ==
        IF k = 0 THEN << >>
        ELSE IF s[k] \in Range(f[k - 1]) THEN f[k - 1] ELSE Append(f[k - 1], s[k])
  IN f[Len(s)]

\* the three appends in the order nvidia, amd, intel (lines 637-643, 670-676)
InOrder(S) ==
  (IF "nvidia" \in S THEN <<"nvidia">> ELSE << >>)
  \o (IF "amd" \in S THEN <<"amd">> ELSE << >>)
  \o (IF "intel" \in S THEN <<"intel">> ELSE << >>)

\* _gpu_vendors_from_lspci, given the vendors named in the output
GpuVendorsFromLspci(named) == Dedup(InOrder(named))

\* _gpu_vendors_from_sysfs, lines 646-666
VendorOfId(vid) ==
  CASE vid = "10de" -> <<"nvidia">>
    [] vid = "1002" -> <<"amd">>
    [] vid = "8086" -> <<"intel">>
    [] OTHER -> << >>
GpuVendorsFromSysfs(cards) ==
  LET f[k \in 0..Len(cards)] ==
        IF k = 0 THEN << >> ELSE f[k - 1] \o VendorOfId(cards[k])
  IN Dedup(f[Len(cards)])

\* _gpu_modules_present, lines 668-677, given the vendors whose module is loaded
GpuModulesPresent(loaded) == Dedup(InOrder(loaded))

\* detect_gpu_vendors, lines 679-684
DetectGpuVendors(named, cards) ==
  IF GpuVendorsFromLspci(named) # << >> THEN GpuVendorsFromLspci(named)
  ELSE GpuVendorsFromSysfs(cards)

\* self.gpu_vendors = detect_gpu_vendors()
ApplyDetectGpu ==
  /\ fn = "none"
  /\ fn' = "gpu"
  /\ result' = DetectGpuVendors(arg.lspci, arg.cards)
  /\ UNCHANGED <<arg, ans, si_cache>>
  /\ CalcFrame

InitGpu ==
  /\ InitCommon
  /\ wpc = "idle"
  /\ need_root = FALSE
  /\ wrapper_file = "intended"
  /\ policy_file = "intended"
  /\ euid0 = FALSE
  /\ pkexec_on_path = TRUE
  /\ pkg_manager = "pacman"
  /\ gpu_vendors = {}
  /\ fn = "none"
  /\ arg \in [lspci : SUBSET Vendors, cards : CardLists, modules : SUBSET Vendors]
  /\ ans = None
  /\ result = None

NextGpu == ApplyDetectGpu

SpecGpu == InitGpu /\ [][NextGpu]_vars

\* ------------------------------------------------------ the terminal search
\* TERMINALS, lines 931-954: name, needs_string, wayland_pref of each entry
Term(n, s, w) == [name |-> n, needs_string |-> s, wayland_pref |-> w]
TERMINALS ==
  <<Term("kgx", FALSE, TRUE), Term("ghostty", FALSE, TRUE), Term("foot", FALSE, TRUE),
    Term("footclient", FALSE, TRUE), Term("rio", FALSE, TRUE), Term("wezterm", FALSE, TRUE),
    Term("gnome-terminal", FALSE, FALSE), Term("konsole", FALSE, FALSE),
    Term("xterm", FALSE, FALSE), Term("terminator", FALSE, FALSE),
    Term("urxvt", FALSE, FALSE), Term("rxvt", FALSE, FALSE), Term("st", FALSE, FALSE),
    Term("eterm", FALSE, FALSE), Term("terminology", FALSE, FALSE),
    Term("alacritty", FALSE, FALSE), Term("kitty", FALSE, FALSE), Term("tilix", FALSE, FALSE),
    Term("xfce4-terminal", TRUE, FALSE), Term("mate-terminal", FALSE, FALSE),
    Term("qterminal", FALSE, FALSE), Term("lxterminal", FALSE, FALSE)>>
TermNames == {TERMINALS[i].name : i \in 1..Len(TERMINALS)}

\* the emulators on PATH, at most MaxOnPath of them, and the values of TERMINAL
MaxOnPath == 2
PathSets == {S \in SUBSET TermNames : Cardinality(S) <= MaxOnPath}
TermEnvs == TermNames \cup {None, "tmux"}

\* a search that does not look at TERMINAL
NoOverride(name, on_path) == None

\* _terminal_cmd_for, lines 1431-1436, and its use at lines 1441-1445
TerminalCmdFor(name, on_path) ==
  IF name # None /\ \E i \in 1..Len(TERMINALS) : TERMINALS[i].name = name /\ name \in on_path
    THEN name
    ELSE None

\* line 1449: sorted(TERMINALS, key=lambda t: not t.wayland_pref), a stable sort
WaylandFirst(terms) ==
  SelectSeq(terms, LAMBDA t : t.wayland_pref) \o SelectSeq(terms, LAMBDA t : ~t.wayland_pref)

\* lines 1450-1454: the first entry of terms that is on PATH
FirstOnPath(terms, on_path) ==
  LET hits == SelectSeq(terms, LAMBDA t : t.name \in on_path)
  IN IF hits = << >> THEN None ELSE hits[1].name

\* lines 1438-1454: the emulator argv is built for; None is the headless path
PickTerminal(term_env, wayland, on_path) ==
  IF TerminalCmdFor(term_env, on_path) # None THEN TerminalCmdFor(term_env, on_path)
  ELSE FirstOnPath(IF wayland THEN WaylandFirst(TERMINALS) ELSE TERMINALS, on_path)

\* the terminal search of one runner call
ApplyPickTerminal ==
  /\ fn = "none"
  /\ fn' = "terminal"
  /\ result' = PickTerminal(arg.term_env, arg.wayland, arg.on_path)
  /\ UNCHANGED <<arg, ans, si_cache>>
  /\ CalcFrame

InitTerm ==
  /\ InitCommon
  /\ wpc = "idle"
  /\ need_root = FALSE
  /\ wrapper_file = "intended"
  /\ policy_file = "intended"
  /\ euid0 = FALSE
  /\ pkexec_on_path = TRUE
  /\ pkg_manager = "pacman"
  /\ gpu_vendors = {}
  /\ fn = "none"
  /\ arg \in [term_env : TermEnvs, wayland : BOOLEAN, on_path : PathSets]
  /\ ans = None
  /\ result = None

NextTerm == ApplyPickTerminal

SpecTerm == InitTerm /\ [][NextTerm]_vars

\* ------------------------------------------------------------ expect_yes_pac
\* a prompt is the words the package manager prints on one line, "?" being a
\* word of its own; the command's first word decides the fallback taken
MaxWords == 4
Words == {"Install", "Remove", "Deseja", "foo", "?"}
Prompts == UNION {[1..n -> Words] : n \in 1..MaxWords}
FirstWords == {"pacman", "pamac", "paru", "run_root"}

\* the regex K[^?\n]*\? : a word of K with a question mark after it on the line
Asks(prompt, K) ==
  \E i \in 1..Len(prompt), j \in 1..Len(prompt) : i < j /\ prompt[i] \in K /\ prompt[j] = "?"

\* the expect block, lines 383-392: the first pattern of the list that matches
\* decides what is sent
ExpectAnswer(prompt) ==
  IF Asks(prompt, {"Proceed", "Install", "Continue", "Replace"}) THEN "y"
  ELSE IF Asks(prompt, {"Import"}) /\ Asks(prompt, {"PGP"}) THEN "y"
  ELSE IF Asks(prompt, {"Remove", "Remover"}) THEN "n"
  ELSE IF Asks(prompt, {"Deseja", "Continuar", "Substituir", "Conflit"}) THEN "s"
  ELSE IF \E i, j, k \in 1..Len(prompt) :
            /\ i < j /\ j < k
            /\ prompt[i] = "press" /\ prompt[j] = "enter" /\ prompt[k] = "continue"
    THEN "enter"
  ELSE None

\* lines 395-401: without expect, pacman and pamac get `yes` piped in and any
\* other command is left to the user
YesPipeAnswer(first) == IF first \in {"pacman", "pamac"} THEN "y" ELSE None

\* expect_yes_pac, lines 372-402: what is sent in answer to a prompt
ExpectYesPac(prompt, has_expect, first) ==
  IF has_expect THEN ExpectAnswer(prompt) ELSE YesPipeAnswer(first)

\* a command wrapped in expect_yes_pac prints a prompt
ApplyExpectYesPac ==
  /\ fn = "none"
  /\ fn' = "expect"
  /\ result' = ExpectYesPac(arg.prompt, arg.has_expect, arg.first)
  /\ UNCHANGED <<arg, ans, si_cache>>
  /\ CalcFrame

InitExpect ==
  /\ InitCommon
  /\ wpc = "idle"
  /\ need_root = FALSE
  /\ wrapper_file = "intended"
  /\ policy_file = "intended"
  /\ euid0 = FALSE
  /\ pkexec_on_path = TRUE
  /\ pkg_manager = "pacman"
  /\ gpu_vendors = {}
  /\ fn = "none"
  /\ arg \in [prompt : Prompts, has_expect : BOOLEAN, first : FirstWords]
  /\ ans = None
  /\ result = None

NextExpect == ApplyExpectYesPac

SpecExpect == InitExpect /\ [][NextExpect]_vars

\* -------------------------------------------------------------------- claims
\* the scripts of the action being handled that are in flight
InFlight == {i \in 1..Len(runs) : runs[i].act = actions}

\* C1: source priority.  While handle_action holds a source selection, the
\* official branch is taken exactly when the official part of the missing set
\* is non-empty; the Flatpak branch only when the official part is empty, a
\* Flatpak id is configured and flatpak_available() answered yes; the
\* third-party branch only when neither applies; and the script handed to the
\* runner is the one of the branch taken.
C1_SourcePriority ==
  path # None =>
    /\ official # << >> <=> path = "official"
    /\ path = "flatpak" => official = << >> /\ flatpak_id # None /\ avail = "yes"
    /\ path = "aur" => official = << >> /\ ~(flatpak_id # None /\ avail = "yes")
    /\ pend.script.kind = "install" =>
         /\ path \in {"official", "aur"}
         /\ path = "official" => pend.script.official = official /\ pend.script.aur = aur
         /\ path = "aur" => pend.script.official = << >> /\ pend.script.aur = to_install
    /\ pend.script.kind = "flatpak_install" => path = "flatpak"

\* C1, its case: official and third-party packages are missing for a card
\* that has a Flatpak id, and the official script is handed to the runner
C1_Witness ==
  /\ path = "official"
  /\ flatpak_id # None
  /\ aur # << >>
  /\ pend.script.kind = "install"
  /\ pend.script.official = official

\* C2: the POST_STEPS entry of a capability starts only after the install
\* script launched for that capability has completed successfully.
C2_PostAfterInstall == post_started => install = "ok"

\* C3: within one call of handle_action at most one script launched through
\* the runner is in flight at any time.
C3_OneInFlight == Cardinality(InFlight) <= 1

\* C4: any two runs of the same process have different sentinel paths.
C4_SentinelsDiffer ==
  \A i, j \in 1..Len(runs) : i # j => runs[i].sentinel # runs[j].sentinel

\* C5: of two consecutive calls of _ensure_polkit_policy (made by the second
\* thread while the control thread makes none), the second launches no write
\* pipeline.
C5_SecondCallNoWrite ==
  [][(/\ calls["t1"] = 2
      /\ calls[Ui] = 0
      /\ pc["t1"] = "pol_cmp"
      /\ pc'["t1"] = "pol_fin") => runs' = runs]_vars

\* positions of a call of _ensure_polkit_policy that has read the flag
PolInCall == {"pol_lock", "pol_set", "pol_cmp", "pol_fin", "pol_unlock"}

\* C6: a thread that calls _ensure_polkit_policy while a call of another
\* thread is in progress observes "already installing" and returns without
\* comparing the files and without launching a pipeline.
C6_SecondSeesInstalling ==
  [][\A t, u \in Threads :
       (/\ t # u
        /\ pc[u] \in PolInCall
        /\ pc[t] = "pol_flag"
        /\ pc'[t] # "pol_flag") => pc'[t] = ret[t]]_vars

\* C7: in root-pkexec mode, a script launched with need_root and ensure_policy
\* that goes through its run_root calls to its end does so with the wrapper
\* and the policy on disk equal to the intended content (the control thread
\* being the only caller of the runner and of the policy installer).
C7_PolicyBeforeUse ==
  [][\A i \in 1..Len(runs) :
       (/\ calls["t1"] = 0
        /\ RunOk(i)
        /\ runs[i].mode = "root-pkexec"
        /\ runs[i].ensure_policy
        /\ runs[i].script.root_calls) => PolicyCheck(wrapper_file, policy_file)]_vars

\* the gate of handle_action decides for the card nvidia-driver
GateStep == pc[Ui] = "gate" /\ pc'[Ui] # "gate" /\ item = "nvidia-driver"
\* ... and blocks: the error is shown and handle_action returns with no
\* package selected, no package query made, no script built or launched
GateBlocks ==
  /\ pc'[Ui] = "return"
  /\ outcome' = "incompatible"
  /\ pkgs' = << >>
  /\ si_cache' = si_cache
  /\ pend' = NoPend
  /\ runs' = runs
  /\ launched' = {}

\* C8, as the code has it: for the card nvidia-driver the gate blocks exactly
\* when neither the detected vendors (the cached gpu_vendors, or
\* detect_gpu_vendors when the cache is empty) nor the vendors of the loaded
\* kernel modules contain "nvidia".
C8_GateUnion ==
  [][GateStep => (GateBlocks <=> "nvidia" \notin (det \cup mods))]_vars

\* C8, its case: the card nvidia-driver was blocked
C8_Witness == item = "nvidia-driver" /\ outcome = "incompatible" /\ pc[Ui] = "return"

\* C8 as claimed: whenever the detected vendors contain no "nvidia", the gate
\* blocks the card nvidia-driver.
C8_GateDetectedOnly ==
  [][(GateStep /\ "nvidia" \notin det) => GateBlocks]_vars

\* C9: when the configured executable is on PATH, handle_action only offers
\* "open": no installation or privileged pipeline is launched in that action.
C9_OpenOnly == outcome = "open_exe" => launched \subseteq {"open_cli"}

\* C10: when handle_action reports "nothing to install", no script was built
\* or launched in that action.
C10_NothingLaunched == outcome = "nothing_to_install" => launched = {}

\* C11: when the missing set has an official and a third-party part and no build
\* helper is at hand (no paru, no yay, manager not pamac), the handler never
\* reaches the build of the install script, launches no install, and returns with
\* the missing-helper error; an install script built for such a set carries both
\* parts and a helper, and is the only install of the action.
C11_HelperAbort ==
  /\ (path = "official" /\ aur # << >> /\ helper_seen = "absent" /\ pkg_manager # "pamac")
       => /\ pc[Ui] # "build"
          /\ pend.script.kind # "install"
          /\ install = None
          /\ pc[Ui] = "return" => outcome = "helper_missing"
  /\ (pend.script.kind = "install" /\ path = "official" /\ aur # << >>)
       => /\ pend.script.official = official
          /\ pend.script.aur = aur
          /\ pend.script.helper # None
          /\ helper_seen # "absent"
  /\ \A i \in 1..Len(runs) :
       (runs[i].script.kind = "install" /\ runs[i].act = actions
          /\ path = "official" /\ aur # << >>)
         => /\ runs[i].script.official = official
            /\ runs[i].script.aur = aur
            /\ runs[i].script.helper # None
C11_Witness ==
  /\ pc[Ui] = "return"
  /\ outcome = "helper_missing"
  /\ path = "official"
  /\ official # << >>
  /\ aur # << >>
  /\ helper_seen = "absent"
C11_WitnessBoth ==
  /\ path = "official"
  /\ install = "launched"
  /\ \E i \in 1..Len(runs) :
       /\ runs[i].script.kind = "install"
       /\ runs[i].act = actions
       /\ runs[i].script.official # << >>
       /\ runs[i].script.aur # << >>

\* the callbacks c handed to the GTK thread so far, run or not
Handed(c) ==
  Cardinality({i \in 1..Len(idle_queue \o dialogs) : (idle_queue \o dialogs)[i] = c})
WatchedMode == RunModeOf(need_root, euid0, pkexec_on_path)
TerminalFound == wpc \notin {"idle", "call", "headless", "headless_end"}

\* C12: on the terminal path, when the sentinel was written before the watcher's
\* deadline, the watcher has at its end removed the file and handed exactly one
\* 'finished' notification to the GTK thread; and no 'finished' notification is
\* handed while the sentinel has never existed.
C12_SentinelSeen ==
  /\ (in_time /\ wpc = "end") => (sentinel_file = "removed" /\ Handed("finished") = 1)
  /\ Handed("finished") > 0 => sentinel_file # "absent"

\* C13: a watcher that ends without having observed the sentinel has handed the
\* GTK thread neither a 'finished' notification nor an error dialog.
C13_TimeoutSilent ==
  (wpc = "end" /\ sentinel_file # "removed")
    => (Handed("finished") = 0 /\ Handed("error") = 0)

\* C14: once the terminal search is over, the window has been asked to iconify
\* exactly when the mode is root-sudo and a terminal was found; a watcher of such
\* a run that observed the sentinel has asked for deiconify and present; in any
\* other mode no iconify, deiconify or present is ever asked for.
C14_WindowRestore ==
  /\ wpc \notin {"idle", "call"}
       => Handed("iconify") = (IF WatchedMode = "root-sudo" /\ TerminalFound THEN 1 ELSE 0)
  /\ (WatchedMode = "root-sudo" /\ wpc = "end" /\ sentinel_file = "removed")
       => (Handed("deiconify") = 1 /\ Handed("present") = 1)
  /\ WatchedMode # "root-sudo"
       => (Handed("iconify") = 0 /\ Handed("deiconify") = 0 /\ Handed("present") = 0)
C14_Witness ==
  /\ WatchedMode = "root-sudo"
  /\ wpc = "end"
  /\ sentinel_file = "removed"
  /\ idle_queue = << >>
  /\ dialogs = <<"iconify", "deiconify", "present", "finished">>
  /\ window = "shown"

\* s is t with some of its places left out
SubseqAt(t, I) ==
  LET f[k \in 0..Len(t)] ==
        IF k = 0 THEN << >>
        ELSE IF k \in I THEN Append(f[k - 1], t[k]) ELSE f[k - 1]
  IN f[Len(t)]
IsSubseq(s, t) == \E I \in SUBSET (1..Len(t)) : s = SubseqAt(t, I)

\* C15: whatever the package-database query does (it answers, it exits with an
\* error, it cannot be run), the list _missing_packages returns is a subsequence
\* of the list it was given.
C15_MissingSubsequence ==
  fn = "missing" => IsSubseq(result, arg)
C15_Witness ==
  /\ fn = "missing"
  /\ ans.q = "answered"
  /\ Len(arg) = 3
  /\ Len(result) = 2
  /\ result[1] # result[2]

\* C16: when the batch query fails (it exits with an error or cannot be run) the
\* result of _missing_packages is the list of the given packages that the
\* per-package query finds not installed, and that query was made.
C16_FallbackOnFailure ==
  (fn = "missing" /\ ans.q \in {"error", "unrunnable"} /\ NonEmpty(arg) # << >>)
    => (ans.each /\ result = Keep(NonEmpty(arg), ans.unmet))

\* C17: the two lists _split_official_aur returns hold together the names it was
\* given, share no name, and a given name is in the first list exactly when the
\* official-repository query (the batch one, or the cached per-package one) reports
\* it.
C17_SplitPartition ==
  fn = "split"
    => /\ Range(result[1]) \cup Range(result[2]) = Range(arg)
       /\ Range(result[1]) \cap Range(result[2]) = {}
       /\ Len(result[1]) + Len(result[2]) = Len(arg)
       /\ \A n \in Range(arg) : n \in Range(result[1]) <=> n \in ans.reported
C17_Witness ==
  /\ fn = "split"
  /\ ~ans.runnable
  /\ result[1] # << >>
  /\ result[2] # << >>
  /\ Len(arg) = 3

\* C18: _resolve_virtual_pkgs returns a list of the same length in which
\* vkd3d-proton stands where it stood when the official repository has it and is
\* replaced by vkd3d-proton-bin when not, every other name standing unchanged; and
\* when the repository does not have it, neither the missing list nor the split
\* made from the resolved list contains vkd3d-proton.
C18_VirtualResolved ==
  /\ fn = "resolve"
       => /\ Len(result) = Len(arg)
          /\ \A i \in 1..Len(arg) :
               result[i] = IF arg[i] # "vkd3d-proton" THEN arg[i]
                        ELSE IF ans.primary THEN "vkd3d-proton" ELSE "vkd3d-proton-bin"
  /\ (fn = "missing" /\ ans.virtual) => "vkd3d-proton" \notin Range(result)
  /\ (fn = "split" /\ ans.virtual) => "vkd3d-proton" \notin Range(result[1]) \cup Range(result[2])
C18_Witness ==
  /\ fn = "split"
  /\ ans.virtual
  /\ "vkd3d-proton-bin" \in Range(result[1]) \cup Range(result[2])

\* the size the written rule gives before labelling
RuleSize(ram) ==
  LET base == IF ram <= 4096 THEN ram
              ELSE IF ram <= 8192 THEN (75 * ram) \div 100
              ELSE IF ram <= 16384 THEN ram \div 2
              ELSE IF ram <= 65536 THEN 8192
              ELSE 16384
      down == base - (base % 256)
  IN IF down < 256 THEN 256 ELSE down

\* C19: for every RAM size the label is made from the size of the rule (the RAM
\* up to 4096, three quarters of it up to 8192, half of it up to 16384, 8192 up to
\* 65536, 16384 above; rounded down to a multiple of 256, at least 256): the
\* number of GiB with a G when the size is a multiple of 1024, the number of MiB
\* with an M when it is not.
C19_ZramSize ==
  fn = "zram"
    => /\ (RuleSize(arg.ram_mib) % 1024 = 0
            => result.size_str = [n |-> RuleSize(arg.ram_mib) \div 1024, unit |-> "G"])
       /\ (RuleSize(arg.ram_mib) % 1024 # 0
            => result.size_str = [n |-> RuleSize(arg.ram_mib), unit |-> "M"])
       /\ (result.size_str.unit = "G" <=> RuleSize(arg.ram_mib) % 1024 = 0)
C19_Witness ==
  /\ fn = "zram"
  /\ arg.ram_mib = 6000
  /\ result.size_str = [n |-> 4352, unit |-> "M"]

\* the size in MiB a label stands for (zram-generator reads G and M as GiB, MiB)
ParseSize(label) == IF label.unit = "G" THEN label.n * 1024 ELSE label.n

\* C20: for every RAM size of at least 256 MiB and every core count, the label
\* stands for a size that is a multiple of 256 MiB, at least 256 MiB and at most
\* the RAM.
C20_LabelWithinRam ==
  (fn = "zram" /\ arg.ram_mib >= 256)
    => /\ ParseSize(result.size_str) % 256 = 0
       /\ ParseSize(result.size_str) >= 256
       /\ ParseSize(result.size_str) <= arg.ram_mib
C20_Witness ==
  /\ fn = "zram"
  /\ arg.ram_mib = 4096
  /\ result.size_str = [n |-> 4, unit |-> "G"]
  /\ ParseSize(result.size_str) = arg.ram_mib
\* C20 as stated: the same for every RAM size of at least 1 MiB.
C20_LabelWithinRamFromOne ==
  (fn = "zram" /\ arg.ram_mib >= 1)
    => /\ ParseSize(result.size_str) % 256 = 0
       /\ ParseSize(result.size_str) >= 256
       /\ ParseSize(result.size_str) <= arg.ram_mib

\* C21: while an NVIDIA request whose selected driver is built by DKMS is handled
\* on a system without kernel headers, no driver install script is handed to the
\* runner or launched.
C21_DkmsHeaderGate ==
  (item = "nvidia-driver" /\ headers = "absent")
    => /\ install = None
       /\ pend.script.kind \notin InstallKinds

\* C22: every script launched with need_root runs in mode root-euid0 exactly when
\* the effective uid is 0, else in root-pkexec exactly when pkexec is on PATH, else
\* in root-sudo; a script launched without need_root runs in mode user; and the
\* run_root functions written into the script are those of its mode.
C22_ModeSelection ==
  \A i \in 1..Len(runs) :
    /\ runs[i].need_root
         => /\ runs[i].mode = "root-euid0" <=> euid0
            /\ runs[i].mode = "root-pkexec" <=> (~euid0 /\ pkexec_on_path)
            /\ runs[i].mode = "root-sudo" <=> (~euid0 /\ ~pkexec_on_path)
    /\ ~runs[i].need_root => runs[i].mode = "user"
    /\ runs[i].run_root = CASE runs[i].mode = "root-euid0" -> "env bash -lc"
                             [] runs[i].mode = "root-pkexec" -> "pkexec wrapper"
                             [] runs[i].mode = "root-sudo" -> "sudo bash -lc"
                             [] OTHER -> "bash -lc"
C22_Witness ==
  /\ euid0
  /\ pkexec_on_path
  /\ \E i \in 1..Len(runs) :
       runs[i].need_root /\ runs[i].mode = "root-euid0" /\ runs[i].run_root = "env bash -lc"

\* the first of three lists that is not empty
FirstNonEmpty(a, b, c) == IF a # << >> THEN a ELSE IF b # << >> THEN b ELSE c

\* C23: the vendors detected are those of the first of the three sources (PCI
\* enumeration, sysfs vendor ids, loaded kernel modules) that yields any, without
\* duplicates; so they are not empty when a GPU module is loaded.
C23_ThreeSources ==
  fn = "gpu"
    => /\ result = FirstNonEmpty(GpuVendorsFromLspci(arg.lspci),
                                 GpuVendorsFromSysfs(arg.cards),
                                 GpuModulesPresent(arg.modules))
       /\ Cardinality(Range(result)) = Len(result)
       /\ arg.modules # {} => result # << >>

\* the place of an emulator in the built-in list, and whether it is preferred
TermIndex(n) == CHOOSE i \in 1..Len(TERMINALS) : TERMINALS[i].name = n
Preferred(n) == TERMINALS[TermIndex(n)].wayland_pref
\* a comes before b in the order of the search
Before(a, b, wayland) ==
  IF wayland /\ Preferred(a) # Preferred(b) THEN Preferred(a)
  ELSE TermIndex(a) < TermIndex(b)

\* C24: the emulator chosen is the TERMINAL override when that names a built-in
\* entry on PATH; otherwise it is the built-in entry on PATH that comes before all
\* others on PATH, preferred entries first in a Wayland session and list order
\* otherwise; no emulator is chosen exactly when no built-in entry is on PATH.
C24_TerminalSelection ==
  fn = "terminal"
    => /\ (arg.term_env \in TermNames \cap arg.on_path) => result = arg.term_env
       /\ (arg.term_env \notin TermNames \cap arg.on_path /\ result # None)
            => /\ result \in TermNames \cap arg.on_path
               /\ \A o \in (TermNames \cap arg.on_path) \ {result} :
                    Before(result, o, arg.wayland)
       /\ result = None <=> TermNames \cap arg.on_path = {}
C24_Witness ==
  /\ fn = "terminal"
  /\ arg.term_env = "kitty"
  /\ arg.on_path = {"kgx", "kitty"}
  /\ arg.wayland
  /\ result = "kitty"

\* C25: to a prompt that asks to remove a package (Remove or Remover with a
\* question mark after it) the wrapper sends no affirmative answer, with expect
\* or without it and whatever else the prompt says.
C25_NoRemovalConfirmed ==
  (fn = "expect" /\ Asks(arg.prompt, {"Remove", "Remover"}))
    => result \notin {"y", "s"}

C28_NoSentinelLeft ==
  (Range(dialogs) \cap {"finished", "done_msg"} # {}) => sentinel_file # "present"

\* C29: whenever the runner has asked for the window to be iconified, a request
\* to de-iconify it follows.
C29_IconifyUndone ==
  (Handed("iconify") > 0) ~> (Handed("deiconify") > 0)

\* C27: the pipeline _ensure_polkit_policy launched can always run its root
\* part, whatever the wrapper and the policy on disk are, and when it has run to
\* its end both files have the intended content.
C27_PolicyRepairRuns ==
  [][\A i \in 1..Len(runs) :
       runs[i].script.kind = "policy"
         => /\ CanRunRoot(runs[i])
            /\ RunOk(i) => PolicyCheck(wrapper_file', policy_file')]_vars

\* C30: the thread holding the policy lock is inside its one call of
\* _ensure_polkit_policy, past the entry; the pipeline that call launches is run
\* with ensure_policy off; and when no call is in progress the lock is free and
\* the installing flag is false.
C30_LockNotLeaked ==
  /\ \A t \in Threads :
       policy_lock = t => pc[t] \in {"pol_set", "pol_cmp", "pol_fin", "pol_unlock"}
  /\ \A i \in 1..Len(runs) : runs[i].script.kind = "policy" => ~runs[i].ensure_policy
  /\ (\A t \in Threads : pc[t] \notin PolInCall \cup {"pol_flag"})
       => (policy_lock = "free" /\ ~policy_installing)
C30_Witness ==
  /\ \A t \in Threads : pc[t] = "idle"
  /\ calls[Ui] > 0
  /\ calls["t1"] > 0
  /\ \E i \in 1..Len(runs) : runs[i].script.kind = "policy"
  /\ policy_lock = "free"
  /\ ~policy_installing

====
